---------------------------- MODULE Spec2Model ----------------------------
(***************************************************************************)
(* A model of rustpass (src/src/main.rs): the vault codec (encrypt_vault,  *)
(* decrypt_vault), the password generator (generate_password) and the      *)
(* commands of main (New, Add, List, Get, Gen) acting on the vault file.   *)
(*                                                                         *)
(* Modelling assumptions, stated once:                                     *)
(*  - Argon2id is an ideal key derivation: the key is the tuple of its     *)
(*    inputs, so two derivations agree exactly when all inputs agree.      *)
(*  - ChaCha20-Poly1305 is an ideal AEAD: a ciphertext opens exactly when  *)
(*    it is, byte for byte, the output of a seal under the same key and    *)
(*    nonce.                                                               *)
(*  - OsRng.fill of a 16- or 12-byte buffer never returns a value it has   *)
(*    returned before (a counter stands for the stream); gen_range draws   *)
(*    are free choices among RngPicks evenly spread indices.               *)
(*  - serde_json is modelled at the level of JSON tokens.                  *)
(***************************************************************************)
EXTENDS Integers, Sequences, FiniteSets, TLC

VARIABLES
    exists,     \* whether vault.bin exists at vault_path()
    file,       \* the bytes of vault.bin (<<>> while it does not exist)
    rng,        \* number of buffers OsRng has filled so far
    now,        \* the clock now_iso() reads, in ticks
    out,        \* the last command: its name, its result and what it printed
    written,    \* every byte string fs::write has stored, in order
    creator,    \* the master password of the command that created the file
    mem         \* secret buffers of the last codec call: left intact / wiped

vars == <<exists, file, rng, now, out, written, creator, mem>>

(***************************** bounds ***************************************)
\* longest password length a generator call is given
MaxLen == 5
\* number of indices a gen_range draw chooses among
RngPicks == 2
\* number of files a run may write
MaxSaves == 3
\* number of adds a run of the store alone may make
MaxAdds == 4

(***************************** helpers **************************************)
Range(s) == {s[i] : i \in 1..Len(s)}

RECURSIVE Concat(_)
Concat(ss) == IF ss = <<>> THEN <<>> ELSE Head(ss) \o Concat(Tail(ss))

Ok(v) == [ok |-> TRUE, err |-> "", val |-> v]
Err(e) == [ok |-> FALSE, err |-> e, val |-> <<>>]

(************************ the password generator ****************************)
LOWER == <<"a", "b", "c", "d", "e", "f", "g", "h", "i", "j", "k", "l", "m", "n", "o", "p", "q", "r", "s", "t", "u", "v", "w", "x", "y", "z">>
UPPER == <<"A", "B", "C", "D", "E", "F", "G", "H", "I", "J", "K", "L", "M", "N", "O", "P", "Q", "R", "S", "T", "U", "V", "W", "X", "Y", "Z">>
DIGITS == <<"0", "1", "2", "3", "4", "5", "6", "7", "8", "9">>
SYMBOLS == <<"!", "@", "#", "$", "%", "^", "&", "*", "(", ")", "-", "_", "=", "+", "[", "]", "{", "}", ";", ":", ",", ".", "<", ">", "/", "?", "~">>
AMBIGUOUS == <<"O", "0", "o", "1", "l", "I", "|", "`", "'", "\"", "{", "}", "[", "]", "(", ")", "/", "\\", ";", ":", ".", ",", "<", ">">>

MinLen == 4

InvalidLength == "len must be >= 4"
EmptyPool == "character pool empty; try --allow-ambiguous or disable --symbols"

AmbiguousChars == Range(AMBIGUOUS)

\* a strip that removes nothing
strip_keep_all(s) == s

\* s.retain(|c| !ambiguous.contains(c))
strip(s) == SelectSeq(s, LAMBDA c : c \notin AmbiguousChars)

\* the pools vector after the optional stripping and the optional push
pools(use_symbols, allow_ambiguous) ==
    LET lower == IF allow_ambiguous THEN LOWER ELSE strip(LOWER)
        upper == IF allow_ambiguous THEN UPPER ELSE strip(UPPER)
        digits == IF allow_ambiguous THEN DIGITS ELSE strip(DIGITS)
        symbols == IF ~allow_ambiguous /\ use_symbols THEN strip(SYMBOLS) ELSE SYMBOLS
    IN  IF use_symbols THEN <<lower, upper, digits, symbols>>
        ELSE <<lower, upper, digits>>

\* rng.gen_range(0..n) for the draw r of 0..RngPicks-1: an index of 0..n-1
gen_range(n, r) == (r * (n - 1)) \div (RngPicks - 1)

\* bytes.shuffle(&mut rng): for i in (1..len).rev() swap(i, gen_range(0..i+1)),
\* on 1-based positions; draws are the tape entries from position k on
RECURSIVE shuffle(_, _, _, _)
shuffle(bytes, i, tape, k) ==
    IF i < 1 THEN bytes
    ELSE LET j == gen_range(i + 1, tape[k])
             swapped == [bytes EXCEPT ![i + 1] = bytes[j + 1], ![j + 1] = bytes[i + 1]]
         IN  shuffle(swapped, i - 1, tape, k + 1)

\* the number of draws generate_password makes once its checks have passed
RngCalls(len) == len + (len - 1)

Tapes(len) == [1..RngCalls(len) -> 0..(RngPicks - 1)]

\* the length check off by one, and no check for an empty pool
generate_password_min3(len, use_symbols, allow_ambiguous, tape) ==
    IF len < MinLen - 1 THEN Err(InvalidLength)
    ELSE LET ps == pools(use_symbols, allow_ambiguous)
             all == Concat(ps)
             m == IF Len(ps) < len THEN Len(ps) ELSE len
             first == [q \in 1..m |-> ps[q][gen_range(Len(ps[q]), tape[q]) + 1]]
             rest == [q \in 1..(len - m) |->
                         all[gen_range(Len(all), tape[m + q]) + 1]]
         IN  Ok(shuffle(first \o rest, len - 1, tape, len + 1))

\* generate_password, its draws read from the tape in the order it makes them:
\* one per pool, one per remaining position, then those of the shuffle
generate_password(len, use_symbols, allow_ambiguous, tape) ==
    IF len < MinLen THEN Err(InvalidLength)
    ELSE LET ps == pools(use_symbols, allow_ambiguous)
         IN  IF \E q \in 1..Len(ps) : ps[q] = <<>> THEN Err(EmptyPool)
             ELSE LET all == Concat(ps)
                      first == [q \in 1..Len(ps) |->
                                   ps[q][gen_range(Len(ps[q]), tape[q]) + 1]]
                      rest == [q \in 1..(len - Len(ps)) |->
                                  all[gen_range(Len(all), tape[Len(ps) + q]) + 1]]
                  IN  Ok(shuffle(first \o rest, len - 1, tape, len + 1))

(****************************** the codec ***********************************)
\* b"RPSS"
MAGIC == <<82, 80, 83, 83>>
VERSION == 1
SALT_LEN == 16
NONCE_LEN == 12
\* 4+1+4*3+16+12
HEADER_LEN == 4 + 1 + 4 * 3 + SALT_LEN + NONCE_LEN
\* the Poly1305 tag ChaCha20Poly1305::encrypt appends
TAG_LEN == 16
\* argon2::Params::MIN_M_COST and MAX_P_COST
MIN_M_COST == 8
MAX_P_COST == 16777215

TruncatedFile == "file too small"
BadMagic == "bad magic"
UnsupportedVersion == "unsupported version"
InvalidParameters == "argon2 params invalid"
DerivationFailure == "argon2 hash_password_into failed"
AuthenticationFailure == "aead decrypt failed (bad password or corrupted file)"
MalformedPayload == "serde_json error"

\* the len low bytes of n, least significant first
RECURSIVE LeBytes(_, _)
LeBytes(n, len) == IF len = 0 THEN <<>> ELSE <<n % 256>> \o LeBytes(n \div 256, len - 1)

\* u32::to_le_bytes and u32::from_le_bytes
to_le_bytes(n) == LeBytes(n, 4)
from_le_bytes(b) == b[1] + 256 * b[2] + 65536 * b[3] + 16777216 * b[4]

\* OsRng.fill(&mut buf) of a len-byte buffer, for the n-th buffer filled
fill(n, len) == LeBytes(n, len)

\* Params::new(m, t, p, None) of the argon2 crate: Err unless m >= 8, m >= 8p,
\* t >= 1 and 1 <= p <= MAX_P_COST
ParamsNew(m, t, p) ==
    IF m < MIN_M_COST \/ t < 1 \/ p < 1 \/ p > MAX_P_COST \/ m < p * 8
    THEN Err(InvalidParameters)
    ELSE Ok([m |-> m, t |-> t, p |-> p])

\* Params::new(64 * 1024, 3, 1, None)
default_params == [m |-> 64 * 1024, t |-> 3, p |-> 1]

\* Argon2id over (password, salt, params): salt and output lengths are fixed
\* and in range, so hash_password_into returns Ok
derive_key_from_password(password, salt, params) ==
    Ok([pw |-> password, salt |-> salt, m |-> params.m, t |-> params.t, p |-> params.p])

\* ChaCha20Poly1305: cipher.encrypt(nonce, plaintext), cipher.decrypt(nonce, ct)
Sealed(key, nonce, pt) == [key |-> key, nonce |-> nonce, pt |-> pt]
\* the output holds one element per plaintext byte and TAG_LEN tag elements;
\* x is the xor of the element with its sealed value (0 as sealed)
aead_encrypt(key, nonce, pt) ==
    [i \in 1..Len(pt) |-> [i |-> i, b |-> pt[i], x |-> 0]]
    \o [j \in 1..TAG_LEN |-> [i |-> j, sealed |-> Sealed(key, nonce, pt), x |-> 0]]
aead_decrypt(key, nonce, ct) ==
    IF Len(ct) < TAG_LEN \/ "sealed" \notin DOMAIN ct[Len(ct)]
    THEN Err(AuthenticationFailure)
    ELSE LET s == ct[Len(ct)].sealed
         IN  IF s.key = key /\ s.nonce = nonce /\ ct = aead_encrypt(key, nonce, s.pt)
             THEN Ok(s.pt)
             ELSE Err(AuthenticationFailure)

(*********************** serde_json, at the level of tokens ****************)
P(c) == [t |-> "punct", v |-> c]
K(k) == [t |-> "key", v |-> k]
S(s) == [t |-> "str", v |-> s]
Null == [t |-> "null", v |-> ""]

\* Option<String>: None is <<>>, Some(s) is <<s>>
None == <<>>
Some(s) == <<s>>
OptTok(o) == IF o = None THEN Null ELSE S(o[1])

Entry(id, name, username, password, url, notes, updated_at) ==
    [id |-> id, name |-> name, username |-> username, password |-> password,
     url |-> url, notes |-> notes, updated_at |-> updated_at]

\* Vault::default()
VaultDefault == [entries |-> <<>>]

SerEntry(e) ==
    << P("{"), K("id"), P(":"), S(e.id), P(","),
       K("name"), P(":"), S(e.name), P(","),
       K("username"), P(":"), S(e.username), P(","),
       K("password"), P(":"), S(e.password), P(","),
       K("url"), P(":"), OptTok(e.url), P(","),
       K("notes"), P(":"), OptTok(e.notes), P(","),
       K("updated_at"), P(":"), S(e.updated_at), P("}") >>

RECURSIVE SerEntries(_)
SerEntries(es) ==
    IF es = <<>> THEN <<>>
    ELSE IF Len(es) = 1 THEN SerEntry(es[1])
    ELSE SerEntry(es[1]) \o <<P(",")>> \o SerEntries(Tail(es))

\* serde_json::to_vec(vault)
to_vec(vault) ==
    <<P("{"), K("entries"), P(":"), P("[")>> \o SerEntries(vault.entries) \o <<P("]"), P("}")>>

StringFields == {"id", "name", "username", "password", "updated_at"}
OptionFields == {"url", "notes"}
Unset == <<"unset">>

\* the derived Deserialize of Entry, once the object's members are read: a
\* String field must be present and a string; an Option field may be absent or null
BuildEntry(acc) ==
    IF \E f \in StringFields : acc[f] = Unset \/ acc[f] = <<"null">>
    THEN Err(MalformedPayload)
    ELSE LET opt(f) == IF acc[f] = Unset \/ acc[f] = <<"null">> THEN None ELSE Some(acc[f][2])
         IN  Ok(Entry(acc["id"][2], acc["name"][2], acc["username"][2], acc["password"][2],
                      opt("url"), opt("notes"), acc["updated_at"][2]))

\* the members of one entry object from token i on (after its "{"): the result
\* carries the entry and the index after the closing "}"
RECURSIVE ParseMembers(_, _, _)
ParseMembers(toks, i, acc) ==
    IF i + 3 > Len(toks) \/ toks[i].t # "key" \/ toks[i + 1] # P(":")
       \/ toks[i + 2].t \notin {"str", "null"}
    THEN Err(MalformedPayload)
    ELSE LET k == toks[i].v
             v == IF toks[i + 2].t = "null" THEN <<"null">> ELSE <<"str", toks[i + 2].v>>
             known == k \in StringFields \cup OptionFields
         IN  IF known /\ acc[k] # Unset THEN Err(MalformedPayload)
             ELSE LET acc2 == IF known THEN [acc EXCEPT ![k] = v] ELSE acc
                  IN  IF toks[i + 3] = P(",") THEN ParseMembers(toks, i + 4, acc2)
                      ELSE IF toks[i + 3] = P("}")
                      THEN LET e == BuildEntry(acc2)
                           IN  IF e.ok THEN Ok([entry |-> e.val, next |-> i + 4]) ELSE e
                      ELSE Err(MalformedPayload)

ParseEntry(toks, i) ==
    IF i + 1 > Len(toks) \/ toks[i] # P("{") THEN Err(MalformedPayload)
    ELSE IF toks[i + 1] = P("}") THEN BuildEntry([f \in StringFields \cup OptionFields |-> Unset])
    ELSE ParseMembers(toks, i + 1, [f \in StringFields \cup OptionFields |-> Unset])

\* the elements of the entries array from token i on, up to "]" "}" and the end
RECURSIVE ParseArray(_, _, _)
ParseArray(toks, i, es) ==
    LET e == ParseEntry(toks, i)
    IN  IF ~e.ok THEN Err(MalformedPayload)
        ELSE LET j == e.val.next
                 es2 == Append(es, e.val.entry)
             IN  IF j + 1 = Len(toks) /\ toks[j] = P("]") /\ toks[j + 1] = P("}")
                 THEN Ok([entries |-> es2])
                 ELSE IF j < Len(toks) /\ toks[j] = P(",") THEN ParseArray(toks, j + 1, es2)
                 ELSE Err(MalformedPayload)

\* serde_json::from_slice::<Vault>(plaintext)
from_slice(toks) ==
    IF Len(toks) < 6 \/ SubSeq(toks, 1, 4) # <<P("{"), K("entries"), P(":"), P("[")>>
    THEN Err(MalformedPayload)
    ELSE IF Len(toks) = 6
    THEN (IF toks[5] = P("]") /\ toks[6] = P("}") THEN Ok(VaultDefault)
          ELSE Err(MalformedPayload))
    ELSE ParseArray(toks, 5, <<>>)

(********************* encrypt_vault and decrypt_vault **********************)
\* what a codec call returns, the library calls it made, in order, and the
\* state in which it leaves the buffers that held secrets
Ret(res, calls, m) ==
    [ok |-> res.ok, err |-> res.err, val |-> res.val, calls |-> calls, mem |-> m]

\* password: the caller's String; pw: the copy made at line 118; key_bytes: the
\* derived key. "none" is a buffer the call never filled
Mem(password, pw, key_bytes) == [password |-> password, pw |-> pw, key_bytes |-> key_bytes]
NoMem == Mem("none", "none", "none")

\* encrypt_vault once salt and nonce_bytes are drawn
encrypt_with(vault, password, params, salt, nonce_bytes) ==
    LET key_bytes == derive_key_from_password(password, salt, params)
    IN  IF ~key_bytes.ok
        THEN Ret(Err(DerivationFailure), <<"derive_key">>, Mem("intact", "none", "none"))
        ELSE LET plaintext == to_vec(vault)
                 ciphertext == aead_encrypt(key_bytes.val, nonce_bytes, plaintext)
                 bytes == MAGIC \o <<VERSION>> \o to_le_bytes(params.m)
                          \o to_le_bytes(params.t) \o to_le_bytes(params.p)
                          \o salt \o nonce_bytes \o ciphertext
             IN  \* pw = password.to_string(); pw.zeroize(): the copy is wiped,
                 \* the caller's password and key_bytes are not
                 Ret(Ok(bytes), <<"derive_key", "to_vec", "encrypt">>,
                     Mem("intact", "zeroed", "intact"))

\* a save that keeps the salt and nonce of the first one
encrypt_vault_stale(vault, password, params, r) ==
    encrypt_with(vault, password, params, fill(0, SALT_LEN), fill(1, NONCE_LEN))

\* r is the number of buffers OsRng has filled before the call
encrypt_vault(vault, password, params, r) ==
    encrypt_with(vault, password, params, fill(r, SALT_LEN), fill(r + 1, NONCE_LEN))

\* the number of buffers one encrypt_vault call fills
ENCRYPT_FILLS == 2

read_u32(data, i) == from_le_bytes(SubSeq(data, i + 1, i + 4))

\* the magic and the version compared in the other order
check_header_version_first(data) ==
    IF Len(data) < HEADER_LEN THEN Ret(Err(TruncatedFile), <<>>, NoMem)
    ELSE IF data[5] # VERSION THEN Ret(Err(UnsupportedVersion), <<>>, NoMem)
    ELSE IF SubSeq(data, 1, 4) # MAGIC THEN Ret(Err(BadMagic), <<>>, NoMem)
    ELSE Ret(ParamsNew(read_u32(data, 5), read_u32(data, 9), read_u32(data, 13)),
             <<"Params::new">>, NoMem)

\* the key derived under the current defaults, whatever the header says
check_header_default_params(data) ==
    IF Len(data) < HEADER_LEN THEN Ret(Err(TruncatedFile), <<>>, NoMem)
    ELSE IF SubSeq(data, 1, 4) # MAGIC THEN Ret(Err(BadMagic), <<>>, NoMem)
    ELSE IF data[5] # VERSION THEN Ret(Err(UnsupportedVersion), <<>>, NoMem)
    ELSE Ret(Ok(default_params), <<"Params::new">>, NoMem)

\* decrypt_vault, lines 125-134: length, magic, version, cost parameters
check_header(data) ==
    IF Len(data) < HEADER_LEN THEN Ret(Err(TruncatedFile), <<>>, NoMem)
    ELSE IF SubSeq(data, 1, 4) # MAGIC THEN Ret(Err(BadMagic), <<>>, NoMem)
    ELSE IF data[5] # VERSION THEN Ret(Err(UnsupportedVersion), <<>>, NoMem)
    ELSE Ret(ParamsNew(read_u32(data, 5), read_u32(data, 9), read_u32(data, 13)),
             <<"Params::new">>, NoMem)

\* a decode that answers a failed open with the empty vault
decrypt_vault_lenient(data, password) ==
    LET h == check_header(data)
    IN  IF ~h.ok THEN Ret(h, h.calls, Mem("intact", "none", "none"))
        ELSE LET salt == SubSeq(data, 18, 33)
                 nonce_bytes == SubSeq(data, 34, 45)
                 ciphertext == SubSeq(data, 46, Len(data))
                 key_bytes == derive_key_from_password(password, salt, h.val)
                 plaintext == aead_decrypt(key_bytes.val, nonce_bytes, ciphertext)
             IN  IF ~plaintext.ok
                 THEN Ret(Ok(VaultDefault), h.calls \o <<"derive_key", "decrypt">>,
                          Mem("intact", "none", "intact"))
                 ELSE Ret(from_slice(plaintext.val),
                          h.calls \o <<"derive_key", "decrypt", "from_slice">>,
                          Mem("intact", "none", "intact"))

\* decrypt_vault: no buffer is wiped on any path
decrypt_vault(data, password) ==
    LET h == check_header(data)
    IN  IF ~h.ok THEN Ret(h, h.calls, Mem("intact", "none", "none"))
        ELSE LET salt == SubSeq(data, 18, 33)
                 nonce_bytes == SubSeq(data, 34, 45)
                 ciphertext == SubSeq(data, 46, Len(data))
                 key_bytes == derive_key_from_password(password, salt, h.val)
             IN  IF ~key_bytes.ok
                 THEN Ret(Err(DerivationFailure), h.calls \o <<"derive_key">>,
                          Mem("intact", "none", "none"))
                 ELSE LET plaintext == aead_decrypt(key_bytes.val, nonce_bytes, ciphertext)
                      IN  IF ~plaintext.ok
                          THEN Ret(plaintext, h.calls \o <<"derive_key", "decrypt">>,
                                   Mem("intact", "none", "intact"))
                          ELSE Ret(from_slice(plaintext.val),
                                   h.calls \o <<"derive_key", "decrypt", "from_slice">>,
                                   Mem("intact", "none", "intact"))

(***************************** the commands *********************************)
AlreadyExists == "vault already exists"

Out(cmd, arg, res) == [cmd |-> cmd, arg |-> arg, res |-> res]

\* String::from_utf8(bytes) of ASCII bytes
RECURSIVE from_utf8(_)
from_utf8(bytes) == IF bytes = <<>> THEN "" ELSE Head(bytes) \o from_utf8(Tail(bytes))

\* load_or_init: the file decoded, or the empty vault when there is none
load_or_init(password) ==
    IF exists THEN decrypt_vault(file, password)
    ELSE Ret(Ok(VaultDefault), <<>>, NoMem)

\* what one encryption used, read off the bytes it produced
Used(bytes) ==
    [salt |-> SubSeq(bytes, 18, 33), nonce |-> SubSeq(bytes, 34, 45),
     key |-> bytes[Len(bytes)].sealed.key]

\* save: encrypt_vault, then fs::write of the whole file; r is the number of
\* buffers OsRng has filled before the call, okval what the command reports
save(cmd, arg, okval, password, vault, params, r) ==
    LET enc == encrypt_vault(vault, password, params, r)
    IN  IF ~enc.ok
        THEN /\ out' = Out(cmd, arg, Err(enc.err))
             /\ mem' = enc.mem
             /\ UNCHANGED <<exists, file, written, creator>>
        ELSE /\ file' = enc.val
             /\ exists' = TRUE
             /\ written' = Append(written, Used(enc.val))
             /\ creator' = IF exists THEN creator ELSE password
             /\ mem' = enc.mem
             /\ out' = Out(cmd, arg, Ok(okval))

\* an initialize that does not look for an existing file
New_overwrite(password) ==
    /\ save("New", <<password>>, <<>>, password, VaultDefault, default_params, rng)
    /\ rng' = rng + ENCRYPT_FILLS
    /\ UNCHANGED now

\* Cmd::New
New(password) ==
    IF exists
    THEN /\ out' = Out("New", <<password>>, Err(AlreadyExists))
         /\ UNCHANGED <<exists, file, rng, now, written, creator, mem>>
    ELSE /\ save("New", <<password>>, <<>>, password, VaultDefault, default_params, rng)
         /\ rng' = rng + ENCRYPT_FILLS
         /\ UNCHANGED now

\* a push without the retain
upsert_append_only(entries, entry) == Append(entries, entry)

\* v.entries.retain(|e| e.name != name); v.entries.push(entry)
upsert(entries, entry) ==
    Append(SelectSeq(entries, LAMBDA e : e.name # entry.name), entry)

\* Cmd::Add; typed is the answer to the "Password (hidden)" prompt
Add(password, name, username, gen, len, symbols, allow_ambiguous, tape, typed) ==
    LET arg == <<password, name, gen, len, symbols, allow_ambiguous>>
        v == load_or_init(password)
        g == IF gen THEN generate_password(len, symbols, allow_ambiguous, tape)
             ELSE Ok(<<>>)
    IN  IF ~v.ok
        THEN /\ out' = Out("Add", arg, Err(v.err))
             /\ mem' = v.mem
             /\ UNCHANGED <<exists, file, rng, now, written, creator>>
        ELSE IF ~g.ok
        THEN /\ out' = Out("Add", arg, Err(g.err))
             /\ mem' = v.mem
             /\ UNCHANGED <<exists, file, rng, now, written, creator>>
        ELSE LET pass == IF gen THEN from_utf8(g.val) ELSE typed
                 \* Uuid::new_v4() takes the next value of the OS generator
                 entry == Entry(ToString(rng), name, username, pass, None, None,
                                ToString(now))
                 entries == upsert(v.val.entries, entry)
             IN  /\ rng' = rng + 1 + ENCRYPT_FILLS
                 /\ now' = now + 1
                 /\ save("Add", arg, entry, password, [entries |-> entries],
                         default_params, rng + 1)

\* a list that writes back the vault it loaded
List_saving(password) ==
    LET v == load_or_init(password)
    IN  IF ~v.ok
        THEN /\ out' = Out("List", <<password>>, Err(v.err))
             /\ mem' = v.mem
             /\ UNCHANGED <<exists, file, rng, now, written, creator>>
        ELSE /\ save("List", <<password>>, <<>>, password, v.val, default_params, rng)
             /\ rng' = rng + ENCRYPT_FILLS
             /\ UNCHANGED now

\* Cmd::List: the lines printed, one per entry, in stored order
List(password) ==
    LET v == load_or_init(password)
    IN  /\ out' = Out("List", <<password>>,
                      IF v.ok
                      THEN Ok([i \in 1..Len(v.val.entries) |->
                                 <<v.val.entries[i].name, v.val.entries[i].username,
                                   v.val.entries[i].updated_at>>])
                      ELSE Err(v.err))
        /\ mem' = v.mem
        /\ UNCHANGED <<exists, file, rng, now, written, creator>>

\* v.entries.iter().find(|e| e.name == name)
find(entries, name) ==
    LET hits == SelectSeq(entries, LAMBDA e : e.name = name)
    IN  IF hits = <<>> THEN None ELSE Some(hits[1])

\* Cmd::Get: the lines printed
Get(password, name, show) ==
    LET v == load_or_init(password)
        e == find(v.val.entries, name)
    IN  /\ out' = Out("Get", <<password, name, show>>,
                      IF ~v.ok THEN Err(v.err)
                      ELSE IF e = None THEN Ok(<<"not found">>)
                      ELSE Ok(<<e[1].username, IF show THEN e[1].password ELSE "******">>))
        /\ mem' = v.mem
        /\ UNCHANGED <<exists, file, rng, now, written, creator>>

\* Cmd::Gen: the password printed
Gen(len, symbols, allow_ambiguous, tape) ==
    /\ out' = Out("Gen", <<len, symbols, allow_ambiguous>>,
                  generate_password(len, symbols, allow_ambiguous, tape))
    /\ UNCHANGED <<exists, file, rng, now, written, creator, mem>>

(*************************** specifications *********************************)
Init ==
    /\ exists = FALSE
    /\ file = <<>>
    /\ rng = 0
    /\ now = 0
    /\ out = Out("none", <<>>, Ok(<<>>))
    /\ written = <<>>
    /\ creator = ""
    /\ mem = NoMem

Passwords == {"p1", "p2"}
Names == {"a", "A", "b"}
\* the draws of a tape all 0: the first index of every range
ZeroTape(len) == [i \in 1..RngCalls(len) |-> 0]

\* the commands of a run: masters are the master passwords typed, names the
\* entry names given, cap the number of files the run may write
CmdNew(masters, cap) ==
    \E password \in masters : New(password) /\ Len(written') <= cap
CmdAddTyped(masters, names, cap) ==
    \E password \in masters, name \in names :
        /\ Add(password, name, "u", FALSE, MinLen, FALSE, FALSE, <<>>, "hunter2")
        /\ Len(written') <= cap
CmdAddGen(masters, names, cap) ==
    \E password \in masters, name \in names, len \in {MinLen - 1, MinLen} :
        /\ Add(password, name, "u", TRUE, len, TRUE, FALSE, ZeroTape(len), "")
        /\ Len(written') <= cap
CmdList(masters) == \E password \in masters : List(password)
CmdGet(masters, names) ==
    \E password \in masters, name \in names, show \in BOOLEAN : Get(password, name, show)
CmdGen ==
    \E len \in {MinLen - 1, MinLen}, symbols \in BOOLEAN :
        Gen(len, symbols, FALSE, ZeroTape(len))

\* each step is one run of main: one command under one prompted password
Next ==
    \/ CmdNew(Passwords, MaxSaves)
    \/ CmdAddTyped(Passwords, {"a", "A"}, MaxSaves)
    \/ CmdAddGen(Passwords, {"a", "A"}, MaxSaves)
    \/ CmdList(Passwords)
    \/ CmdGet(Passwords, {"a", "A"})
    \/ CmdGen

Spec == Init /\ [][Next]_vars

\* the store alone: adds and lookups under one master password
NextStore ==
    \/ CmdAddTyped({"p1"}, Names, MaxAdds)
    \/ CmdGet({"p1"}, Names)

SpecStore == Init /\ [][NextStore]_vars

\* one run of the generator alone, over every length up to MaxLen, every
\* flag combination and every tape of draws
GenAny ==
    \E len \in 0..MaxLen, symbols \in BOOLEAN, allow_ambiguous \in BOOLEAN :
        \E tape \in Tapes(len) : Gen(len, symbols, allow_ambiguous, tape)

NextGen == out.cmd = "none" /\ GenAny

SpecGen == Init /\ [][NextGen]_vars

(******************* the codec alone: encode, damage, decode ****************)
E1 == Entry("0", "a", "u", "hunter2", None, None, "0")
E2 == Entry("1", "A", "v", "x", Some("https://a"), Some("n"), "1")
CodecVaults == {[entries |-> es] : es \in {<<>>, <<E1>>, <<E2>>, <<E1, E2>>, <<E2, E1>>}}
CodecParams == {default_params, [m |-> 16, t |-> 1, p |-> 2]}

\* plaintexts a holder of the password can seal that are not what to_vec writes
ForeignPlaintexts ==
    { <<>>,
      <<P("{"), P("}")>>,
      <<P("{"), K("entries"), P(":"), P("["), P("{"), P("}"), P("]"), P("}")>>,
      SubSeq(to_vec([entries |-> <<E1>>]), 1, 20),
      <<P("{"), K("entries"), P(":"), P("["),
        P("{"), K("updated_at"), P(":"), S("0"), P(","), K("password"), P(":"), S("x"), P(","),
        K("extra"), P(":"), Null, P(","),
        K("username"), P(":"), S("u"), P(","), K("name"), P(":"), S("a"), P(","),
        K("id"), P(":"), S("0"), P("}"), P("]"), P("}")>>,
      <<P("{"), K("entries"), P(":"), P("["),
        P("{"), K("id"), P(":"), S("0"), P(","), K("id"), P(":"), S("1"), P(","),
        K("name"), P(":"), S("a"), P(","), K("username"), P(":"), S("u"), P(","),
        K("password"), P(":"), S("x"), P(","), K("updated_at"), P(":"), S("0"),
        P("}"), P("]"), P("}")>> }

RECURSIVE Pow2(_)
Pow2(k) == IF k = 0 THEN 1 ELSE 2 * Pow2(k - 1)
XorBit(b, k) == IF (b \div Pow2(k)) % 2 = 1 THEN b - Pow2(k) ELSE b + Pow2(k)

\* data with bit k of the byte at offset off (0-based) flipped
FlipBit(data, off, k) ==
    IF off < HEADER_LEN
    THEN [data EXCEPT ![off + 1] = XorBit(data[off + 1], k)]
    ELSE [data EXCEPT ![off + 1].x = XorBit(data[off + 1].x, k)]

CodecArg(vault, password, params, how, off, password2) ==
    [vault |-> vault, password |-> password, params |-> params, how |-> how,
     off |-> off, password2 |-> password2]

Encode(vault, password, params) ==
    LET enc == encrypt_vault(vault, password, params, rng)
    IN  /\ out.cmd = "none"
        /\ file' = enc.val
        /\ rng' = rng + ENCRYPT_FILLS
        /\ mem' = enc.mem
        /\ out' = Out("encode", CodecArg(vault, password, params, "none", 0, ""),
                      [ok |-> enc.ok, err |-> enc.err, val |-> <<>>, calls |-> enc.calls])
        /\ UNCHANGED <<exists, now, written, creator>>

Damage(how, off, data) ==
    /\ out.cmd = "encode"
    /\ file' = data
    /\ out' = Out("damage", [out.arg EXCEPT !.how = how, !.off = off], out.res)
    /\ UNCHANGED <<exists, rng, now, written, creator, mem>>

\* every bit of every byte, but the top bit of a cost parameter: a cost of
\* 2^31 or more is beyond TLC's integers
Flip ==
    \E off \in 0..(Len(file) - 1), k \in 0..7 :
        /\ ~(off \in {8, 12, 16} /\ k = 7)
        /\ Damage("flip", off, FlipBit(file, off, k))

Truncate ==
    \E n \in {0, HEADER_LEN - 1, HEADER_LEN, HEADER_LEN + 1, HEADER_LEN + TAG_LEN - 1,
              HEADER_LEN + TAG_LEN, Len(file) - 1} :
        n < Len(file) /\ Damage("truncate", n, SubSeq(file, 1, n))

\* the payload replaced by another sealed under the same key and nonce
Reseal ==
    \E pt \in ForeignPlaintexts :
        Damage("reseal", HEADER_LEN,
               SubSeq(file, 1, HEADER_LEN)
               \o aead_encrypt(file[Len(file)].sealed.key, SubSeq(file, 34, 45), pt))

\* a second fault, in the magic, the version or a cost parameter, on data
\* already damaged in its header, cut short or resealed
FlipHeader ==
    \E off \in {0, 4, 7, 9, 13} :
        /\ out.cmd = "damage"
        /\ out.arg.how \in {"truncate", "reseal"} \/ (out.arg.how = "flip" /\ out.arg.off < 17)
        /\ off < Len(file)
        /\ file' = FlipBit(file, off, 0)
        /\ out' = Out("damage", [out.arg EXCEPT !.how = "two"], out.res)
        /\ UNCHANGED <<exists, rng, now, written, creator, mem>>

Decode(password2) ==
    LET dec == decrypt_vault(file, password2)
    IN  /\ out.cmd \in {"encode", "damage"}
        /\ out' = Out("decode", [out.arg EXCEPT !.password2 = password2], dec)
        /\ mem' = dec.mem
        /\ UNCHANGED <<exists, file, rng, now, written, creator>>

NextCodec ==
    \/ \E vault \in CodecVaults, password \in Passwords, params \in CodecParams :
           Encode(vault, password, params)
    \/ Flip
    \/ Truncate
    \/ Reseal
    \/ FlipHeader
    \/ \E password2 \in Passwords : Decode(password2)

SpecCodec == Init /\ [][NextCodec]_vars

(******************************* the claims *********************************)
\* C1: decoding an untouched encoding under the password it was encoded with
\* succeeds and returns the vault that was encoded: the same records, in the
\* same order, with the same fields, whatever valid cost parameters were used
C1_RoundTrip ==
    (out.cmd = "decode" /\ out.arg.how = "none" /\ out.arg.password2 = out.arg.password)
        => (out.res.ok /\ out.res.val = out.arg.vault)

\* two records, one with url and notes and one without, under cost parameters
\* that are not the defaults, decoded back
C1_Witness ==
    /\ out.cmd = "decode" /\ out.arg.how = "none"
    /\ out.arg.password2 = out.arg.password
    /\ out.arg.params # default_params
    /\ out.arg.vault.entries = <<E2, E1>>
    /\ out.res.ok

\* C2: decoding under another password, and decoding under the right one
\* after one bit at an offset of 45 or more was flipped, both fail, with the
\* one error of a failed open, and neither returns a vault
C2_FailClosed ==
    (/\ out.cmd = "decode"
     /\ \/ out.arg.how = "none" /\ out.arg.password2 # out.arg.password
        \/ out.arg.how = "flip" /\ out.arg.off >= HEADER_LEN
                                /\ out.arg.password2 = out.arg.password)
        => (~out.res.ok /\ out.res.err = AuthenticationFailure /\ out.res.val = <<>>)

\* the top bit of the last tag byte flipped, then decoded under the right password
C2_Witness ==
    /\ out.cmd = "decode" /\ out.arg.how = "flip"
    /\ out.arg.off = Len(file) - 1
    /\ file[Len(file)].x = 128
    /\ out.arg.password2 = out.arg.password
    /\ out.res.err = AuthenticationFailure

\* the checks of a decode, each stated on the bytes alone
LenOK(data) == Len(data) >= 45
MagicOK(data) == <<data[1], data[2], data[3], data[4]>> = <<82, 80, 83, 83>>
VersionOK(data) == data[5] = 1
CostOf(data, off) ==
    data[off + 1] + 256 * data[off + 2] + 65536 * data[off + 3] + 16777216 * data[off + 4]
ParamsOK(data) ==
    LET m == CostOf(data, 5)
        t == CostOf(data, 9)
        p == CostOf(data, 13)
    IN  m >= 8 /\ t >= 1 /\ p >= 1 /\ p <= 16777215 /\ m >= 8 * p
Opened(data, password) ==
    aead_decrypt([pw |-> password, salt |-> SubSeq(data, 18, 33), m |-> CostOf(data, 5),
                  t |-> CostOf(data, 9), p |-> CostOf(data, 13)],
                 SubSeq(data, 34, 45), SubSeq(data, 46, Len(data)))
FirstFailure(data, password) ==
    IF ~LenOK(data) THEN TruncatedFile
    ELSE IF ~MagicOK(data) THEN BadMagic
    ELSE IF ~VersionOK(data) THEN UnsupportedVersion
    ELSE IF ~ParamsOK(data) THEN InvalidParameters
    ELSE IF ~Opened(data, password).ok THEN AuthenticationFailure
    ELSE IF ~from_slice(Opened(data, password).val).ok THEN MalformedPayload
    ELSE ""

\* C5: a decode reports the first check that fails, in the order length,
\* magic, version, cost parameters, open, payload; it derives no key and opens
\* nothing when one of the first four fails; 45 bytes pass the length check
C5_ValidationOrder ==
    out.cmd = "decode" =>
        /\ out.res.err = FirstFailure(file, out.arg.password2)
        /\ out.res.ok = (out.res.err = "")
        /\ out.res.err \in {TruncatedFile, BadMagic, UnsupportedVersion, InvalidParameters}
              => Range(out.res.calls) \cap {"derive_key", "decrypt", "from_slice"} = {}
        /\ Len(file) = 45 => out.res.err # TruncatedFile

\* data with a wrong magic and a wrong version at once: the magic is reported
C5_Witness ==
    /\ out.cmd = "decode"
    /\ LenOK(file) /\ ~MagicOK(file) /\ ~VersionOK(file)
    /\ out.res.err = BadMagic

\* C6: when an encode or a decode has returned, the caller's password buffer
\* holds zeros and so does the buffer of the derived key
C6_SecretsErased ==
    out.cmd \in {"encode", "decode"} =>
        (mem.password = "zeroed" /\ mem.key_bytes # "intact")

\* the character categories and the ambiguous set, as the claims name them
Lowercase == Range(LOWER)
Uppercase == Range(UPPER)
Digit == Range(DIGITS)
Symbol == Range(SYMBOLS)
Ambiguous == Range(AMBIGUOUS)

\* C4: a password the generator returns has exactly the length asked for,
\* holds a lowercase letter, an uppercase letter and a digit, and a symbol when
\* symbols are asked for, holds nothing outside these categories, and holds no
\* ambiguous character unless ambiguous characters are allowed
C4_LengthAndCoverage ==
    (out.cmd = "Gen" /\ out.res.ok) =>
        LET len == out.arg[1]
            includeSymbols == out.arg[2]
            allowAmbiguous == out.arg[3]
            pw == out.res.val
            allowed == Lowercase \cup Uppercase \cup Digit
                       \cup (IF includeSymbols THEN Symbol ELSE {})
        IN  /\ Len(pw) = len
            /\ Range(pw) \cap Lowercase # {}
            /\ Range(pw) \cap Uppercase # {}
            /\ Range(pw) \cap Digit # {}
            /\ includeSymbols => Range(pw) \cap Symbol # {}
            /\ Range(pw) \subseteq allowed
            /\ ~allowAmbiguous => Range(pw) \cap Ambiguous = {}

\* a password of the longest length, with symbols and without ambiguous
\* characters, whose guaranteed characters were moved by the shuffle
C4_Witness ==
    /\ out.cmd = "Gen" /\ out.res.ok
    /\ out.arg = <<MaxLen, TRUE, FALSE>>
    /\ out.res.val[1] \in Symbol
    /\ out.res.val[MaxLen] \in Lowercase

\* C10: the generator fails with the length error for every length below 4,
\* whatever the flags, and succeeds for every length from 4 on under all four
\* flag combinations: no pool is empty after stripping, so the empty-pool
\* error is never returned
C10_FailureCharacterization ==
    /\ out.cmd = "none" =>
          \A s \in BOOLEAN, a \in BOOLEAN : \A q \in 1..Len(pools(s, a)) : pools(s, a)[q] # <<>>
    /\ out.cmd = "Gen" =>
        /\ out.arg[1] < 4 => (~out.res.ok /\ out.res.err = InvalidLength)
        /\ out.arg[1] >= 4 => out.res.ok
        /\ out.res.err # EmptyPool

\* length 3 refused although both flags are set
C10_Witness ==
    /\ out.cmd = "Gen"
    /\ out.arg = <<3, TRUE, TRUE>>
    /\ out.res.err = InvalidLength

\* the entries of the vault file, decoded under the password that created it
Stored == decrypt_vault(file, creator).val.entries
StoredNext == decrypt_vault(file', creator').val.entries
Others(entries, name) == SelectSeq(entries, LAMBDA e : e.name # name)

\* C3: no name occurs in two records of the stored vault; and an add of a
\* record leaves it the one record of its name, found by a lookup of the name,
\* while the records of other names stay as they were, in the order they had
C3_UpsertUniqueness ==
    /\ [](exists => \A i, j \in 1..Len(Stored) :
                        Stored[i].name = Stored[j].name => i = j)
    /\ [][written' # written =>
            LET r2 == out'.res.val
            IN  /\ find(StoredNext, r2.name) = Some(r2)
                /\ Len(SelectSeq(StoredNext, LAMBDA e : e.name = r2.name)) = 1
                /\ StoredNext[Len(StoredNext)] = r2
                /\ Others(StoredNext, r2.name) = (IF exists THEN Others(Stored, r2.name) ELSE <<>>)
         ]_vars

\* four adds have left three records: one add replaced a record, and "a" and
\* "A" are both stored
C3_Witness ==
    /\ out.cmd = "Add" /\ out.res.ok
    /\ Len(written) = 4
    /\ Len(Stored) = 3
    /\ {"a", "A"} \subseteq {Stored[i].name : i \in 1..Len(Stored)}
    /\ Stored[3].name = "a"

\* C7: no two files written carry the same salt or the same nonce, and no
\* key was used twice with one nonce
C7_PerSaveFreshness ==
    \A i, j \in 1..Len(written) :
        i # j => /\ written[i].salt # written[j].salt
                 /\ written[i].nonce # written[j].nonce
                 /\ <<written[i].key, written[i].nonce>> # <<written[j].key, written[j].nonce>>

\* two files written under one master password, the second by an add
C7_Witness ==
    /\ Len(written) = 2
    /\ written[1].key.pw = written[2].key.pw
    /\ out.cmd = "Add"

\* C8, as stated: a step that brings the file into existence is an initialize
C8_OnlyInitializeCreates ==
    [][(~exists /\ exists') => out'.cmd = "New"]_vars

\* C8, amended: a step that brings the file into existence is an initialize or
\* an add; list, get and generate never create it; an initialize writes the
\* empty vault and a creating add a vault of the one record added
C8_InitializeOrAddCreates ==
    [][(~exists /\ exists') =>
          /\ out'.cmd \in {"New", "Add"}
          /\ out'.res.ok
          /\ out'.cmd = "New" => StoredNext = <<>>
          /\ out'.cmd = "Add" => StoredNext = <<out'.res.val>>
      ]_vars

\* the file was created by an add
C8_Witness ==
    /\ exists /\ Len(written) = 1
    /\ out.cmd = "Add" /\ out.res.ok
    /\ Len(Stored) = 1

\* C9: a command that ends in an error, and a list, a get or a generate,
\* leaves the file as it was; and the file, when there is one, decodes under
\* the password of the command that created it
C9_FileUnchangedOnError ==
    /\ [][(~out'.res.ok \/ out'.cmd \in {"List", "Get", "Gen"})
             => (file' = file /\ exists' = exists)]_vars
    /\ [](exists => decrypt_vault(file, creator).ok)

\* an add under another master password than the file's, refused
C9_Witness ==
    /\ exists
    /\ out.cmd = "Add" /\ out.res.err = AuthenticationFailure
    /\ out.arg[1] # creator
    /\ decrypt_vault(file, creator).ok

=============================================================================
